---- MODULE Spec2Model ----
(***************************************************************************)
(* Model of the DPoP proof validator of streamplace/go-dpop (parse.go).    *)
(*                                                                         *)
(* Text that the code inspects character by character (base64url member    *)
(* values, URLs, the canonical JWK JSON) is a sequence of one-token        *)
(* strings; text that is only compared (methods, nonces, ids) is a string. *)
(* A big.Int is its minimal big-endian byte sequence (no leading zero).    *)
(***************************************************************************)
EXTENDS Integers, Sequences, FiniteSets, TLC

(***************************************************************************)
(* Bytes and big integers (math/big as used by parseJwk and                *)
(* getKeyStringRepresentation).                                            *)
(***************************************************************************)
RECURSIVE StripLeadingZeros(_)
StripLeadingZeros(b) ==
    IF Len(b) > 0 /\ b[1] = 0 THEN StripLeadingZeros(Tail(b)) ELSE b

Zeros(n) == [i \in 1..n |-> 0]

\* big.NewInt(0).SetBytes(b): the unsigned big-endian value of b.
SetBytes(b) == StripLeadingZeros(b)

\* (*big.Int).FillBytes(buf) with len(buf) = n: zero-extended big-endian bytes;
\* it panics when the value does not fit in n bytes.
FillBytes(x, n) ==
    IF Len(x) > n
    THEN [panic |-> TRUE, bytes |-> <<>>]
    ELSE [panic |-> FALSE, bytes |-> Zeros(n - Len(x)) \o x]

\* (*big.Int).Uint64(): the low 64 bits of the value.
Low64(x) ==
    IF Len(x) > 8 THEN StripLeadingZeros(SubSeq(x, Len(x) - 7, Len(x))) ELSE x

\* The magnitude of a negative int64 whose two's complement bytes are b
\* (Len(b) = 8, top bit set): invert every byte and add one.
RECURSIVE AddOne(_)
AddOne(b) ==
    IF Len(b) = 0 THEN <<>>
    ELSE IF b[Len(b)] < 255
         THEN SubSeq(b, 1, Len(b) - 1) \o <<b[Len(b)] + 1>>
         ELSE AddOne(SubSeq(b, 1, Len(b) - 1)) \o <<0>>

Neg64(b) == StripLeadingZeros(AddOne([i \in 1..Len(b) |-> 255 - b[i]]))

\* big.NewInt(int64(e)).Bytes() for an int e whose 64 bits are the bytes e64:
\* Bytes() is the magnitude, so a value with bit 63 set comes back as the
\* magnitude of the negative int64.
Int64Magnitude(e64) ==
    IF Len(e64) = 8 /\ e64[1] >= 128 THEN Neg64(e64) ELSE e64

(***************************************************************************)
(* encoding/base64, RawURLEncoding.                                        *)
(***************************************************************************)
B64Alphabet ==
    << "A","B","C","D","E","F","G","H","I","J","K","L","M",
       "N","O","P","Q","R","S","T","U","V","W","X","Y","Z",
       "a","b","c","d","e","f","g","h","i","j","k","l","m",
       "n","o","p","q","r","s","t","u","v","w","x","y","z",
       "0","1","2","3","4","5","6","7","8","9","-","_" >>

B64Chars == {B64Alphabet[i] : i \in 1..Len(B64Alphabet)}

B64Index(c) == (CHOOSE i \in 1..Len(B64Alphabet) : B64Alphabet[i] = c) - 1

B64Char(v) == B64Alphabet[v + 1]

RECURSIVE DecodeGroups(_)
DecodeGroups(s) ==
    IF Len(s) = 0 THEN <<>>
    ELSE IF Len(s) >= 4
    THEN LET v == B64Index(s[1]) * 262144 + B64Index(s[2]) * 4096
                  + B64Index(s[3]) * 64 + B64Index(s[4])
         IN << v \div 65536, (v \div 256) % 256, v % 256 >>
            \o DecodeGroups(SubSeq(s, 5, Len(s)))
    ELSE IF Len(s) = 3
    THEN LET v == B64Index(s[1]) * 4096 + B64Index(s[2]) * 64 + B64Index(s[3])
         IN << v \div 1024, (v \div 4) % 256 >>
    ELSE LET v == B64Index(s[1]) * 64 + B64Index(s[2])
         IN << v \div 16 >>

\* base64.RawURLEncoding.DecodeString
DecodeString(s) ==
    IF (\E i \in 1..Len(s) : s[i] \notin B64Chars) \/ Len(s) % 4 = 1
    THEN [err |-> "base64.CorruptInputError", bytes |-> <<>>]
    ELSE [err |-> "", bytes |-> DecodeGroups(s)]

RECURSIVE EncodeGroups(_)
EncodeGroups(b) ==
    IF Len(b) = 0 THEN <<>>
    ELSE IF Len(b) >= 3
    THEN LET v == b[1] * 65536 + b[2] * 256 + b[3]
         IN << B64Char(v \div 262144), B64Char((v \div 4096) % 64),
               B64Char((v \div 64) % 64), B64Char(v % 64) >>
            \o EncodeGroups(SubSeq(b, 4, Len(b)))
    ELSE IF Len(b) = 2
    THEN LET v == (b[1] * 256 + b[2]) * 4
         IN << B64Char(v \div 4096), B64Char((v \div 64) % 64), B64Char(v % 64) >>
    ELSE LET v == b[1] * 16
         IN << B64Char(v \div 64), B64Char(v % 64) >>

\* base64.RawURLEncoding.EncodeToString
EncodeToString(b) == EncodeGroups(b)

RECURSIVE TrimRightPad(_)
\* strings.TrimRight(s, "=")
TrimRightPad(s) ==
    IF Len(s) > 0 /\ s[Len(s)] = "=" THEN TrimRightPad(SubSeq(s, 1, Len(s) - 1)) ELSE s

base64urlTrailingPadding(s) == DecodeString(TrimRightPad(s))

(***************************************************************************)
(* JSON values of the JOSE header as encoding/json decodes them into       *)
(* interface{}: a tagged value; a JWK is a map from member names to them.  *)
(***************************************************************************)
NoMap == [k \in {} |-> <<>>]

JStr(toks) == [t |-> "string", v |-> toks, m |-> NoMap]

JNum(toks) == [t |-> "number", v |-> toks, m |-> NoMap]

JObj(members) == [t |-> "object", v |-> <<>>, m |-> members]

\* m[k].(string) in its comma-ok form
StrMember(m, k) ==
    IF k \in DOMAIN m /\ m[k].t = "string"
    THEN [ok |-> TRUE, v |-> m[k].v]
    ELSE [ok |-> FALSE, v |-> <<>>]

NoKey ==
    [type |-> "none", curve |-> "", X |-> <<>>, Y |-> <<>>,
     N |-> <<>>, E |-> <<>>, pub |-> <<>>]

KeyErr(e) == [err |-> e, key |-> NoKey]

KeyOk(k) == [err |-> "", key |-> k]

SupportedCurves == {"P-256", "P-384", "P-521"}

parseJwkEC(jwkMap) ==
    LET x == StrMember(jwkMap, "x")
        y == StrMember(jwkMap, "y")
        crv == StrMember(jwkMap, "crv")
        xCoordinate == base64urlTrailingPadding(x.v)
        yCoordinate == base64urlTrailingPadding(y.v)
    IN IF ~x.ok THEN KeyErr("ErrInvalidProof")
       ELSE IF ~y.ok THEN KeyErr("ErrInvalidProof")
       ELSE IF ~crv.ok THEN KeyErr("ErrInvalidProof")
       ELSE IF xCoordinate.err # "" THEN KeyErr(xCoordinate.err)
       ELSE IF yCoordinate.err # "" THEN KeyErr(yCoordinate.err)
       ELSE IF Len(crv.v) # 1 \/ crv.v[1] \notin SupportedCurves
            THEN KeyErr("ErrUnsupportedCurve")
       ELSE KeyOk([NoKey EXCEPT !.type = "ecdsa", !.curve = crv.v[1],
                                !.X = SetBytes(xCoordinate.bytes),
                                !.Y = SetBytes(yCoordinate.bytes)])

parseJwkRSA(jwkMap) ==
    LET e == StrMember(jwkMap, "e")
        n == StrMember(jwkMap, "n")
        exponent == base64urlTrailingPadding(e.v)
        modulus == base64urlTrailingPadding(n.v)
    IN IF ~e.ok THEN KeyErr("ErrInvalidProof")
       ELSE IF ~n.ok THEN KeyErr("ErrInvalidProof")
       ELSE IF exponent.err # "" THEN KeyErr(exponent.err)
       ELSE IF modulus.err # "" THEN KeyErr(modulus.err)
       ELSE KeyOk([NoKey EXCEPT !.type = "rsa",
                                !.N = SetBytes(modulus.bytes),
                                !.E = Low64(SetBytes(exponent.bytes))])

parseJwkOKP(jwkMap) ==
    LET x == StrMember(jwkMap, "x")
        publicKey == base64urlTrailingPadding(x.v)
    IN IF ~x.ok THEN KeyErr("ErrInvalidProof")
       ELSE IF publicKey.err # "" THEN KeyErr(publicKey.err)
       ELSE KeyOk([NoKey EXCEPT !.type = "ed25519", !.pub = publicKey.bytes])

\* Parses a JWK and inherently strips it of optional fields.
parseJwk(jwkMap) ==
    LET kty == StrMember(jwkMap, "kty")
    IN IF ~kty.ok THEN KeyErr("ErrInvalidProof")
       ELSE IF kty.v = <<"EC">> THEN parseJwkEC(jwkMap)
       ELSE IF kty.v = <<"RSA">> THEN parseJwkRSA(jwkMap)
       ELSE IF kty.v = <<"OKP">> THEN parseJwkOKP(jwkMap)
       ELSE KeyErr("ErrUnsupportedKeyAlgorithm")

\* elliptic.Curve.Params().BitSize of the curves parseJwk can select
BitSize(curve) ==
    CASE curve = "P-256" -> 256
      [] curve = "P-384" -> 384
      [] curve = "P-521" -> 521

\* the width with the remainder bits dropped
keyCurveBytesSizeTruncated(bits) == bits \div 8

keyCurveBytesSize(bits) == (bits \div 8) + (bits % 8)

\* Member names in the byte order encoding/json sorts map keys by.
SortedKeys == << "alg", "crv", "e", "k", "kid", "kty", "n", "use", "x", "y" >>

RECURSIVE jsonMembers(_, _)
jsonMembers(m, keys) ==
    IF Len(keys) = 0 THEN <<>>
    ELSE << "\"", keys[1], "\":\"" >> \o m[keys[1]] \o << "\"" >>
         \o (IF Len(keys) > 1 THEN << "," >> ELSE <<>>)
         \o jsonMembers(m, Tail(keys))

\* json.Marshal of a map[string]interface{} whose values are strings: the
\* members in sorted key order, no insignificant whitespace.
jsonMarshal(m) ==
    << "{" >> \o jsonMembers(m, SelectSeq(SortedKeys, LAMBDA k : k \in DOMAIN m))
    \o << "}" >>

BytesErr(e) == [err |-> e, panic |-> FALSE, bytes |-> <<>>]

BytesPanic == [err |-> "", panic |-> TRUE, bytes |-> <<>>]

BytesOk(b) == [err |-> "", panic |-> FALSE, bytes |-> b]

\* getKeyStringRepresentation without its ed25519.PublicKey case
getKeyStringRepresentationNoEd25519(key) ==
    IF key.type = "ecdsa"
    THEN LET size == keyCurveBytesSize(BitSize(key.curve))
             x == FillBytes(key.X, size)
             y == FillBytes(key.Y, size)
         IN IF x.panic \/ y.panic THEN BytesPanic
            ELSE BytesOk(jsonMarshal(
                     [k \in {"kty", "crv", "x", "y"} |->
                        CASE k = "kty" -> << "EC" >>
                          [] k = "crv" -> << key.curve >>
                          [] k = "x" -> EncodeToString(x.bytes)
                          [] k = "y" -> EncodeToString(y.bytes)]))
    ELSE IF key.type = "rsa"
    THEN BytesOk(jsonMarshal(
             [k \in {"kty", "e", "n"} |->
                CASE k = "kty" -> << "RSA" >>
                  [] k = "e" -> EncodeToString(Int64Magnitude(key.E))
                  [] k = "n" -> EncodeToString(key.N)]))
    ELSE BytesErr("ErrUnsupportedKeyAlgorithm")

\* Returns the string representation of a key in JSON format.
getKeyStringRepresentation(key) ==
    IF key.type = "ecdsa"
    THEN LET size == keyCurveBytesSize(BitSize(key.curve))
             x == FillBytes(key.X, size)
             y == FillBytes(key.Y, size)
         IN IF x.panic \/ y.panic THEN BytesPanic
            ELSE BytesOk(jsonMarshal(
                     [k \in {"kty", "crv", "x", "y"} |->
                        CASE k = "kty" -> << "EC" >>
                          [] k = "crv" -> << key.curve >>
                          [] k = "x" -> EncodeToString(x.bytes)
                          [] k = "y" -> EncodeToString(y.bytes)]))
    ELSE IF key.type = "rsa"
    THEN BytesOk(jsonMarshal(
             [k \in {"kty", "e", "n"} |->
                CASE k = "kty" -> << "RSA" >>
                  [] k = "e" -> EncodeToString(Int64Magnitude(key.E))
                  [] k = "n" -> EncodeToString(key.N)]))
    ELSE IF key.type = "ed25519"
    THEN BytesOk(jsonMarshal(
             [k \in {"kty", "crv", "x"} |->
                CASE k = "kty" -> << "OKP" >>
                  [] k = "crv" -> << "Ed25519" >>
                  [] k = "x" -> EncodeToString(key.pub)]))
    ELSE BytesErr("ErrUnsupportedKeyAlgorithm")

\* the JWK marshalled as it came, its optional members not stripped
getThumbprintableJwkJSONbytesUnstripped(jwk) ==
    IF parseJwk(jwk).err # "" THEN BytesErr(parseJwk(jwk).err)
    ELSE BytesOk(jsonMarshal(
             [k \in {j \in DOMAIN jwk : jwk[j].t = "string"} |-> jwk[k].v]))

\* Strips eventual optional members of a JWK in order to be able to compute
\* the thumbprint of it.
getThumbprintableJwkJSONbytes(jwk) ==
    LET minimalJwk == parseJwk(jwk)
    IN IF minimalJwk.err # "" THEN BytesErr(minimalJwk.err)
       ELSE getKeyStringRepresentation(minimalJwk.key)

\* The header of a token: typ and jwk are absent (nil) or a tagged value; an
\* object-valued jwk carries its member map in .m.
NilValue == [t |-> "nil", v |-> <<>>, m |-> NoMap]

keyFunc(header) ==
    IF header.jwk.t = "nil" THEN KeyErr("ErrMissingJWK")
    ELSE IF header.jwk.t # "object" THEN KeyErr("ErrMissingJWK")
    ELSE parseJwk(header.jwk.m)

(***************************************************************************)
(* net/url: a URL text is a sequence of tokens (a scheme, ":", "//", a     *)
(* host, path segments, "?", query text, "#", fragment text); a url.URL is *)
(* a record of the fields Parse and String use.                            *)
(***************************************************************************)
CtlTokens == {"\t"}

PathTokens == {"/token", "/other"}

ToLower(scheme) ==
    CASE scheme = "HTTPS" -> "https"
      [] OTHER -> scheme

EmptyURL ==
    [Scheme |-> "", Opaque |-> <<>>, Host |-> "", Path |-> <<>>,
     ForceQuery |-> FALSE, RawQuery |-> <<>>, Fragment |-> <<>>]

\* strings.Cut(s, sep): before, after (found or not)
IndexOf(s, sep) ==
    IF \E i \in 1..Len(s) : s[i] = sep
    THEN CHOOSE i \in 1..Len(s) : s[i] = sep /\ \A j \in 1..(i - 1) : s[j] # sep
    ELSE 0

CutBefore(s, sep) ==
    IF IndexOf(s, sep) = 0 THEN s ELSE SubSeq(s, 1, IndexOf(s, sep) - 1)

CutAfter(s, sep) ==
    IF IndexOf(s, sep) = 0 THEN <<>> ELSE SubSeq(s, IndexOf(s, sep) + 1, Len(s))

Count(s, sep) == Cardinality({i \in 1..Len(s) : s[i] = sep})

\* url.Parse(rawURL)
urlParse(rawURL) ==
    LET u == CutBefore(rawURL, "#")
        frag == CutAfter(rawURL, "#")
        hasScheme == Len(u) >= 2 /\ u[2] = ":"
        scheme == IF hasScheme THEN ToLower(u[1]) ELSE ""
        rest0 == IF hasScheme THEN SubSeq(u, 3, Len(u)) ELSE u
        force == Len(rest0) > 0 /\ rest0[Len(rest0)] = "?" /\ Count(rest0, "?") = 1
        rest1 == IF force THEN SubSeq(rest0, 1, Len(rest0) - 1)
                 ELSE CutBefore(rest0, "?")
        query == IF force THEN <<>> ELSE CutAfter(rest0, "?")
        rooted == Len(rest1) > 0 /\ (rest1[1] = "//" \/ rest1[1] \in PathTokens)
        hasAuth == Len(rest1) > 0 /\ rest1[1] = "//"
        hasHost == hasAuth /\ Len(rest1) >= 2 /\ rest1[2] \notin PathTokens
        host == IF hasHost THEN rest1[2] ELSE ""
        path == IF hasHost THEN SubSeq(rest1, 3, Len(rest1))
                ELSE IF hasAuth THEN SubSeq(rest1, 2, Len(rest1))
                ELSE rest1
    IN IF \E i \in 1..Len(u) : u[i] \in CtlTokens
       THEN [err |-> "url.Error", url |-> EmptyURL]
       ELSE IF Len(u) >= 1 /\ u[1] = ":"
       THEN [err |-> "url.Error", url |-> EmptyURL]
       ELSE IF ~rooted /\ scheme # ""
       THEN [err |-> "",
             url |-> [EmptyURL EXCEPT !.Scheme = scheme, !.Opaque = rest1,
                                      !.ForceQuery = force, !.RawQuery = query,
                                      !.Fragment = frag]]
       ELSE [err |-> "",
             url |-> [EmptyURL EXCEPT !.Scheme = scheme, !.Host = host,
                                      !.Path = path, !.ForceQuery = force,
                                      !.RawQuery = query, !.Fragment = frag]]

\* (*url.URL).String()
urlString(u) ==
    (IF u.Scheme # "" THEN << u.Scheme, ":" >> ELSE <<>>)
    \o (IF u.Opaque # <<>> THEN u.Opaque
        ELSE (IF (u.Scheme # "" \/ u.Host # "") /\ (u.Host # "" \/ u.Path # <<>>)
              THEN << "//" >> ELSE <<>>)
             \o (IF u.Host # "" THEN << u.Host >> ELSE <<>>)
             \o u.Path)
    \o (IF u.ForceQuery \/ u.RawQuery # <<>> THEN << "?" >> \o u.RawQuery ELSE <<>>)
    \o (IF u.Fragment # <<>> THEN << "#" >> \o u.Fragment ELSE <<>>)

(***************************************************************************)
(* crypto/sha256 is not computed: a digest is written as the marker        *)
(* "sha256:" followed by the bytes hashed (a collision-free hash), and its *)
(* base64url text as the marker "b64url:" followed by the digest.          *)
(***************************************************************************)
sha256Sum(bytes) == << "sha256:" >> \o bytes

b64URLjwkHash(jwkJSONbytes) == << "b64url:" >> \o sha256Sum(jwkJSONbytes)

(***************************************************************************)
(* Bounds of the model.                                                    *)
(***************************************************************************)
\* The wall clock when a call starts.
Now0 == 10

\* How far the wall clock may advance between two readings of time.Now().
MaxTick == 1

\* iat ranges over Now0 - MaxSkew .. Now0 + MaxSkew.
MaxSkew == 7

\* Durations in the options range over -MaxNegDur .. MaxDur.
MaxDur == 2

MaxNegDur == 2

\* How many parts of a call's input differ from the nominal valid request.
MaxDeviations == 2

\* time.Minute * 5 and time.Second * 0, in minutes
DEFAULT_ALLOWED_PROOF_AGE == 5

DEFAULT_ALLOWED_TIME_WINDOW == 0

(***************************************************************************)
(* Inputs: JWKs, tokens, request URLs, options.                            *)
(***************************************************************************)
Text(b) == EncodeToString(b)

\* n bytes: first, zeros, 1
Blob(first, n) == << first >> \o Zeros(n - 2) \o << 1 >>

EcJwk(crv, x, y) ==
    [k \in {"kty", "crv", "x", "y"} |->
       CASE k = "kty" -> JStr(<< "EC" >>)
         [] k = "crv" -> JStr(<< crv >>)
         [] k = "x" -> x
         [] k = "y" -> y]

RsaJwk(e, n) ==
    [k \in {"kty", "e", "n"} |->
       CASE k = "kty" -> JStr(<< "RSA" >>)
         [] k = "e" -> JStr(e)
         [] k = "n" -> JStr(n)]

OkpJwk(x) ==
    [k \in {"kty", "crv", "x"} |->
       CASE k = "kty" -> JStr(<< "OKP" >>)
         [] k = "crv" -> JStr(<< "Ed25519" >>)
         [] k = "x" -> JStr(x)]

\* m with the members of extra added or overridden
WithMembers(m, extra) ==
    [k \in DOMAIN m \cup DOMAIN extra |-> IF k \in DOMAIN extra THEN extra[k] ELSE m[k]]

Without(m, k) == [j \in DOMAIN m \ {k} |-> m[j]]

EcP256 == EcJwk("P-256", JStr(Text(Blob(17, 32))), JStr(Text(Blob(0, 32))))

EcP384 == EcJwk("P-384", JStr(Text(Blob(3, 48))), JStr(Text(Blob(9, 48))))

EcP521 == EcJwk("P-521", JStr(Text(Blob(1, 66))), JStr(Text(Blob(0, 66))))

\* the same point as EcP256, x written with "=" padding and y without its
\* leading zero byte
EcP256Alt ==
    EcJwk("P-256", JStr(Text(Blob(17, 32)) \o << "=" >>), JStr(Text(Tail(Blob(0, 32)))))

EcOversize == EcJwk("P-256", JStr(Text(Blob(1, 33))), JStr(Text(Blob(0, 32))))

EcBadCurve == EcJwk("secp256k1", JStr(Text(Blob(17, 32))), JStr(Text(Blob(0, 32))))

EcBadText == EcJwk("P-256", JStr(<< "A", "!" >>), JStr(Text(Blob(0, 32))))

EcNumberX == EcJwk("P-256", JNum(<< "7" >>), JStr(Text(Blob(0, 32))))

EcNoY == Without(EcP256, "y")

RsaKey == RsaJwk(<< "A", "Q", "A", "B" >>, Text(<< 200, 1, 2, 3 >>))

\* exponents that do not fit a positive int64
RsaTopBitE == RsaJwk(Text(<< 255, 255, 255, 255, 255, 255, 255, 254 >>), Text(<< 200, 1, 2, 3 >>))

RsaLongE == RsaJwk(Text(<< 1, 0, 0, 0, 0, 0, 1, 0, 1 >>), Text(<< 200, 1, 2, 3 >>))

OkpKey == OkpJwk(Text(Blob(42, 32)))

OkpShort == OkpJwk(Text(<< 4, 2 >>))

OctKey == [k \in {"kty", "k"} |-> IF k = "kty" THEN JStr(<< "OCT" >>) ELSE JStr(<< "A", "Q" >>)]

NumberKty == WithMembers(EcP256, [k \in {"kty"} |-> JNum(<< "7" >>)])

BaseJwks ==
    { EcP256, EcP384, EcP521, EcP256Alt, EcOversize, EcBadCurve, EcBadText,
      EcNumberX, EcNoY, RsaKey, RsaTopBitE, RsaLongE, OkpKey, OkpShort, OctKey,
      NumberKty }

\* members that parseJwk does not require of the key they are added to
ExtraMembers ==
    { NoMap,
      [k \in {"alg", "kid"} |-> IF k = "alg" THEN JStr(<< "ES256" >>) ELSE JStr(<< "key-1" >>)],
      [k \in {"use", "e"} |-> IF k = "use" THEN JStr(<< "sig" >>) ELSE JNum(<< "3" >>)] }

Decorated(m, extra) == WithMembers(extra, m)

JwkDomain == {Decorated(m, extra) : m \in BaseJwks, extra \in ExtraMembers}

BaseText == << "https", ":", "//", "example.com", "/token" >>

HtuTexts ==
    { BaseText,
      <<>>,
      BaseText \o << "?", "a=1" >>,
      BaseText \o << "#", "frag" >>,
      BaseText \o << "?" >>,
      BaseText \o << "?", "a=1", "#", "frag" >>,
      << "HTTPS", ":", "//", "example.com", "/token" >>,
      << "https", ":", "//", "example.com", "/other" >>,
      << "https", ":", "//", "evil.example", "/token" >>,
      << "https", ":", "//", "example.com", "/token", "\t" >>,
      << ":", "//", "example.com", "/token" >> }

\* The request URL objects a server hands to Parse: parsed request targets.
RequestTexts ==
    { BaseText,
      BaseText \o << "?", "a=1" >>,
      BaseText \o << "#", "frag" >>,
      BaseText \o << "?" >>,
      BaseText \o << "?", "b=2", "#", "frag" >>,
      << "https", ":", "//", "example.com", "/other" >> }

RequestURLs == {urlParse(t).url : t \in RequestTexts}

NoDuration == [set |-> FALSE, d |-> 0]

Duration(d) == [set |-> TRUE, d |-> d]

NoTime == [set |-> FALSE, t |-> 0]

Time(t) == [set |-> TRUE, t |-> t]

ThumbprintOf(jwk) == b64URLjwkHash(getThumbprintableJwkJSONbytes(jwk).bytes)

NominalToken ==
    [wellFormed |-> TRUE,
     verifies |-> TRUE,
     header |-> [typ |-> JStr(<< "dpop+jwt" >>), jwk |-> JObj(EcP256)],
     claims |-> [htm |-> "POST", htu |-> BaseText, jti |-> "id1",
                 iat |-> Time(Now0), nonce |-> ""]]

NominalOpts ==
    [Nonce |-> "", NonceHasTimestamp |-> FALSE, TimeWindow |-> NoDuration,
     AllowedProofAge |-> NoDuration, JKT |-> <<>>]

NominalInput ==
    [token |-> NominalToken, httpMethod |-> "POST", httpURL |-> 1,
     url |-> urlParse(BaseText).url, opts |-> NominalOpts]

Dimensions ==
    { "wellFormed", "verifies", "jwk", "typ", "htm", "htu", "jti", "iat",
      "nonce", "httpMethod", "url", "optNonce", "NonceHasTimestamp",
      "TimeWindow", "AllowedProofAge", "JKT" }

\* The values a part of the input takes besides its nominal one.
Variants(dim) ==
    CASE dim = "wellFormed" -> {FALSE}
      [] dim = "verifies" -> {FALSE}
      [] dim = "jwk" ->
           {NilValue, JStr(<< "key" >>), JObj(EcP521), JObj(EcOversize),
            JObj(EcBadCurve), JObj(EcBadText), JObj(RsaKey), JObj(OkpKey),
            JObj(OkpShort), JObj(OctKey)}
      [] dim = "typ" ->
           {NilValue, JStr(<< "jwt" >>), JNum(<< "42" >>), JObj(NoMap)}
      [] dim = "htm" -> {"", "GET", "post"}
      [] dim = "htu" -> HtuTexts \ {BaseText}
      [] dim = "jti" -> {""}
      [] dim = "iat" ->
           {NoTime, Time(Now0 - DEFAULT_ALLOWED_PROOF_AGE),
            Time(Now0 - DEFAULT_ALLOWED_PROOF_AGE - 1), Time(Now0 + 1),
            Time(Now0 + 2)}
      [] dim = "nonce" -> {"n1"}
      [] dim = "httpMethod" -> {"GET"}
      [] dim = "url" -> RequestURLs \ {urlParse(BaseText).url}
      [] dim = "optNonce" -> {"n1", "n2"}
      [] dim = "NonceHasTimestamp" -> {TRUE}
      [] dim = "TimeWindow" -> {Duration(0), Duration(1)}
      [] dim = "AllowedProofAge" -> {Duration(0), Duration(MaxDur)}
      [] dim = "JKT" -> {ThumbprintOf(EcP256), ThumbprintOf(RsaKey)}

\* input i with part dim set to v
With(i, dim, v) ==
    CASE dim = "wellFormed" -> [i EXCEPT !.token.wellFormed = v]
      [] dim = "verifies" -> [i EXCEPT !.token.verifies = v]
      [] dim = "jwk" -> [i EXCEPT !.token.header.jwk = v]
      [] dim = "typ" -> [i EXCEPT !.token.header.typ = v]
      [] dim = "htm" -> [i EXCEPT !.token.claims.htm = v]
      [] dim = "htu" -> [i EXCEPT !.token.claims.htu = v]
      [] dim = "jti" -> [i EXCEPT !.token.claims.jti = v]
      [] dim = "iat" -> [i EXCEPT !.token.claims.iat = v]
      [] dim = "nonce" -> [i EXCEPT !.token.claims.nonce = v]
      [] dim = "httpMethod" -> [i EXCEPT !.httpMethod = v]
      [] dim = "url" -> [i EXCEPT !.url = v]
      [] dim = "optNonce" -> [i EXCEPT !.opts.Nonce = v]
      [] dim = "NonceHasTimestamp" -> [i EXCEPT !.opts.NonceHasTimestamp = v]
      [] dim = "TimeWindow" -> [i EXCEPT !.opts.TimeWindow = v]
      [] dim = "AllowedProofAge" -> [i EXCEPT !.opts.AllowedProofAge = v]
      [] dim = "JKT" -> [i EXCEPT !.opts.JKT = v]

RECURSIVE InputsWithin(_)
\* the inputs that differ from the nominal one in at most k parts
InputsWithin(k) ==
    IF k = 0 THEN {NominalInput}
    ELSE LET less == InputsWithin(k - 1)
         IN less \cup UNION {UNION {{With(i, dim, v) : v \in Variants(dim)} : dim \in Dimensions} : i \in less}

(***************************************************************************)
(* State. A call of Parse is a process c; the request URLs live in a heap  *)
(* of url.URL objects that calls reach through the pointer they are given. *)
(***************************************************************************)
VARIABLES
    inp,     \* inp[c]: the arguments of call c (token, method, pointer, options)
    heap,    \* heap[r]: the url.URL object at pointer r
    heap0,   \* the heap as the callers built it, before any call ran
    pc,      \* pc[c]: where call c stands in Parse
    loc,     \* loc[c]: the local variables of call c
    ret,     \* ret[c]: what call c returned
    clock    \* the wall clock time.Now() reads

vars == << inp, heap, heap0, pc, loc, ret, clock >>

Calls == {1, 2}

Refs == {1, 2}

NoLocals ==
    [httpURL |-> 0, claimURL |-> EmptyURL, past |-> 0, future |-> 0,
     now1 |-> 0, now2 |-> 0, jwkJSONbytes |-> <<>>]

\* What a call returned: a *Proof ("proof"), an error ("error": the errors
\* joined in it), or neither because it panicked; line is the line of
\* parse.go the call left Parse at.
NoReturn == [kind |-> "none", line |-> 0, errs |-> {}, HashedPublicKey |-> <<>>]

ReturnErr(line, errs) ==
    [kind |-> "error", line |-> line, errs |-> errs, HashedPublicKey |-> <<>>]

ReturnProof(hash) ==
    [kind |-> "proof", line |-> 171, errs |-> {}, HashedPublicKey |-> hash]

Panic(line) == [kind |-> "panic", line |-> line, errs |-> {}, HashedPublicKey |-> <<>>]

\* call c leaves Parse with r
Leave(c, r) ==
    /\ pc' = [pc EXCEPT ![c] = "done"]
    /\ ret' = [ret EXCEPT ![c] = r]

\* call c goes on to label l
Goto(c, l) ==
    /\ pc' = [pc EXCEPT ![c] = l]
    /\ UNCHANGED ret

\* What signature verification in jwt.ParseWithClaims requires of the key
\* keyFunc returned: crypto/ecdsa rejects a point whose coordinates are not
\* field elements, golang-jwt rejects an Ed25519 key that is not 32 bytes.
VerifierAcceptsKey(key) ==
    CASE key.type = "ecdsa" ->
           /\ Len(key.X) <= (BitSize(key.curve) + 7) \div 8
           /\ Len(key.Y) <= (BitSize(key.curve) + 7) \div 8
      [] key.type = "ed25519" -> Len(key.pub) = 32
      [] key.type = "rsa" -> Len(key.N) > 0
      [] OTHER -> FALSE

\* jwt.ParseWithClaims(tokenString, &claims, keyFunc): "" or the errors
parseWithClaims(token) ==
    IF ~token.wellFormed THEN {"jwt.ErrTokenMalformed"}
    ELSE IF keyFunc(token.header).err # ""
    THEN {"jwt.ErrTokenUnverifiable", keyFunc(token.header).err}
    ELSE IF ~VerifierAcceptsKey(keyFunc(token.header).key) \/ ~token.verifies
    THEN {"jwt.ErrTokenSignatureInvalid"}
    ELSE {}

\* lines 75-79
ParseWithClaims(c) ==
    /\ pc[c] = "start"
    /\ IF parseWithClaims(inp[c].token) # {}
       THEN Leave(c, ReturnErr(78, {"ErrInvalidProof"} \cup parseWithClaims(inp[c].token)))
       ELSE Goto(c, "claims")
    /\ UNCHANGED << inp, heap, heap0, loc, clock >>

claimsMissing(claims) ==
    claims.htm = "" \/ claims.htu = <<>> \/ claims.jti = "" \/ ~claims.iat.set

\* lines 83-85
CheckClaims(c) ==
    /\ pc[c] = "claims"
    /\ IF claimsMissing(inp[c].token.claims)
       THEN Leave(c, ReturnErr(84, {"ErrInvalidProof", "ErrMissingClaims"}))
       ELSE Goto(c, "typ")
    /\ UNCHANGED << inp, heap, heap0, loc, clock >>

\* typeHeader == nil || typeHeader.(string) != "dpop+jwt": "panic" when the
\* unchecked type assertion is applied to a value that is no string
typCheck(typeHeader) ==
    IF typeHeader.t = "nil" THEN "reject"
    ELSE IF typeHeader.t # "string" THEN "panic"
    ELSE IF typeHeader.v # << "dpop+jwt" >> THEN "reject"
    ELSE "pass"

\* lines 89-92
CheckTyp(c) ==
    /\ pc[c] = "typ"
    /\ IF typCheck(inp[c].token.header.typ) = "panic"
       THEN Leave(c, Panic(90))
       ELSE IF typCheck(inp[c].token.header.typ) = "reject"
       THEN Leave(c, ReturnErr(91, {"ErrInvalidProof", "ErrUnsupportedJWTType"}))
       ELSE Goto(c, "stripQuery")
    /\ UNCHANGED << inp, heap, heap0, loc, clock >>

\* &(*httpURL): the address of the object httpURL points to, which is
\* httpURL itself; no url.URL is copied.
addressOfDeref(httpURL) == httpURL

\* lines 95-97
StripQuery(c) ==
    /\ pc[c] = "stripQuery"
    /\ loc' = [loc EXCEPT ![c].httpURL = addressOfDeref(inp[c].httpURL)]
    /\ heap' = [heap EXCEPT ![addressOfDeref(inp[c].httpURL)].RawQuery = <<>>]
    /\ Goto(c, "stripFragment")
    /\ UNCHANGED << inp, heap0, clock >>

\* line 98
StripFragment(c) ==
    /\ pc[c] = "stripFragment"
    /\ heap' = [heap EXCEPT ![loc[c].httpURL].Fragment = <<>>]
    /\ Goto(c, "claimURL")
    /\ UNCHANGED << inp, heap0, loc, clock >>

\* lines 102-107
ParseClaimURL(c) ==
    /\ pc[c] = "claimURL"
    /\ IF urlParse(inp[c].token.claims.htu).err # ""
       THEN /\ Leave(c, ReturnErr(104, {"ErrInvalidProof", "ErrIncorrectHTTPTarget"}))
            /\ UNCHANGED loc
       ELSE /\ loc' = [loc EXCEPT ![c].claimURL =
                         [urlParse(inp[c].token.claims.htu).url
                            EXCEPT !.RawQuery = <<>>, !.Fragment = <<>>]]
            /\ Goto(c, "target")
    /\ UNCHANGED << inp, heap, heap0, clock >>

targetMismatch(httpMethod, htm, httpURL, claimURL) ==
    httpMethod # htm \/ urlString(httpURL) # urlString(claimURL)

\* lines 111-113
CheckTarget(c) ==
    /\ pc[c] = "target"
    /\ IF targetMismatch(inp[c].httpMethod, inp[c].token.claims.htm,
                         heap[loc[c].httpURL], loc[c].claimURL)
       THEN Leave(c, ReturnErr(112, {"ErrInvalidProof", "ErrIncorrectHTTPTarget"}))
       ELSE Goto(c, "nonce")
    /\ UNCHANGED << inp, heap, heap0, loc, clock >>

nonceMismatch(opts, claims) == opts.Nonce # "" /\ opts.Nonce # claims.nonce

\* lines 117-119
CheckNonce(c) ==
    /\ pc[c] = "nonce"
    /\ IF nonceMismatch(inp[c].opts, inp[c].token.claims)
       THEN Leave(c, ReturnErr(118, {"ErrIncorrectNonce"}))
       ELSE Goto(c, "expired")
    /\ UNCHANGED << inp, heap, heap0, loc, clock >>

allowedProofAge(opts) ==
    IF opts.AllowedProofAge.set THEN opts.AllowedProofAge.d ELSE DEFAULT_ALLOWED_PROOF_AGE

allowedTimeWindow(opts) ==
    IF opts.TimeWindow.set THEN opts.TimeWindow.d ELSE DEFAULT_ALLOWED_TIME_WINDOW

\* the comparison with the boundary itself rejected
tooOldInclusive(iat, now, past) == iat <= now - past

\* claims.IssuedAt.Before(time.Now().Add(-past))
tooOld(iat, now, past) == iat < now - past

\* claims.IssuedAt.After(time.Now().Add(future))
tooNew(iat, now, future) == iat > now + future

\* lines 123-131; now1 is what time.Now() returned on line 129
CheckExpired(c) ==
    /\ pc[c] = "expired"
    /\ IF inp[c].opts.NonceHasTimestamp
       THEN /\ Goto(c, "thumbprint")
            /\ UNCHANGED loc
       ELSE /\ loc' = [loc EXCEPT ![c].past = allowedProofAge(inp[c].opts),
                                  ![c].now1 = clock]
            /\ IF tooOld(inp[c].token.claims.iat.t, clock, allowedProofAge(inp[c].opts))
               THEN Leave(c, ReturnErr(130, {"ErrInvalidProof", "ErrExpired"}))
               ELSE Goto(c, "future")
    /\ UNCHANGED << inp, heap, heap0, clock >>

\* lines 134-140; now2 is what time.Now() returned on line 138
CheckFuture(c) ==
    /\ pc[c] = "future"
    /\ loc' = [loc EXCEPT ![c].future = allowedTimeWindow(inp[c].opts),
                          ![c].now2 = clock]
    /\ IF tooNew(inp[c].token.claims.iat.t, clock, allowedTimeWindow(inp[c].opts))
       THEN Leave(c, ReturnErr(139, {"ErrInvalidProof", "ErrFuture"}))
       ELSE Goto(c, "thumbprint")
    /\ UNCHANGED << inp, heap, heap0, clock >>

\* The wall clock moves on while a call runs, so the two readings of
\* time.Now() (lines 129 and 138) may differ.
Tick ==
    /\ clock < Now0 + MaxTick
    /\ \E c \in Calls : pc[c] \notin {"off", "done"}
    /\ clock' = clock + 1
    /\ UNCHANGED << inp, heap, heap0, pc, loc, ret >>

\* lines 146-161: what the thumbprint step does with the jwk header
thumbprintStep(jwkHeader) ==
    IF jwkHeader.t # "object" THEN ReturnErr(149, {"ErrMissingJWK"})
    ELSE IF getThumbprintableJwkJSONbytes(jwkHeader.m).panic THEN Panic(151)
    ELSE IF getThumbprintableJwkJSONbytes(jwkHeader.m).err # ""
    THEN ReturnErr(154, {"ErrInvalidProof", getThumbprintableJwkJSONbytes(jwkHeader.m).err})
    ELSE ReturnProof(b64URLjwkHash(getThumbprintableJwkJSONbytes(jwkHeader.m).bytes))

\* lines 146-161
Thumbprint(c) ==
    /\ pc[c] = "thumbprint"
    /\ IF thumbprintStep(inp[c].token.header.jwk).kind # "proof"
       THEN /\ Leave(c, thumbprintStep(inp[c].token.header.jwk))
            /\ UNCHANGED loc
       ELSE /\ loc' = [loc EXCEPT ![c].jwkJSONbytes =
                         getThumbprintableJwkJSONbytes(inp[c].token.header.jwk.m).bytes]
            /\ Goto(c, "jkt")
    /\ UNCHANGED << inp, heap, heap0, clock >>

jktMismatch(opts, hash) == opts.JKT # <<>> /\ hash # opts.JKT

\* lines 165-174
CheckJKT(c) ==
    /\ pc[c] = "jkt"
    /\ IF jktMismatch(inp[c].opts, b64URLjwkHash(loc[c].jwkJSONbytes))
       THEN Leave(c, ReturnErr(167, {"ErrInvalidProof", "ErrIncorrectJKT"}))
       ELSE Leave(c, ReturnProof(b64URLjwkHash(loc[c].jwkJSONbytes)))
    /\ UNCHANGED << inp, heap, heap0, loc, clock >>

\* Parse as a function of its arguments, the url.URL object it is handed
\* and the clock (which stands still): what lines 65-175 return when no
\* other call runs.
parseAlone(i, url, now) ==
    LET claims == i.token.claims
        stripped == [url EXCEPT !.RawQuery = <<>>, !.Fragment = <<>>]
        claimURL == [urlParse(claims.htu).url EXCEPT !.RawQuery = <<>>, !.Fragment = <<>>]
    IN IF parseWithClaims(i.token) # {}
       THEN ReturnErr(78, {"ErrInvalidProof"} \cup parseWithClaims(i.token))
       ELSE IF claimsMissing(claims)
       THEN ReturnErr(84, {"ErrInvalidProof", "ErrMissingClaims"})
       ELSE IF typCheck(i.token.header.typ) = "panic" THEN Panic(90)
       ELSE IF typCheck(i.token.header.typ) = "reject"
       THEN ReturnErr(91, {"ErrInvalidProof", "ErrUnsupportedJWTType"})
       ELSE IF urlParse(claims.htu).err # ""
       THEN ReturnErr(104, {"ErrInvalidProof", "ErrIncorrectHTTPTarget"})
       ELSE IF targetMismatch(i.httpMethod, claims.htm, stripped, claimURL)
       THEN ReturnErr(112, {"ErrInvalidProof", "ErrIncorrectHTTPTarget"})
       ELSE IF nonceMismatch(i.opts, claims)
       THEN ReturnErr(118, {"ErrIncorrectNonce"})
       ELSE IF ~i.opts.NonceHasTimestamp /\ tooOld(claims.iat.t, now, allowedProofAge(i.opts))
       THEN ReturnErr(130, {"ErrInvalidProof", "ErrExpired"})
       ELSE IF ~i.opts.NonceHasTimestamp /\ tooNew(claims.iat.t, now, allowedTimeWindow(i.opts))
       THEN ReturnErr(139, {"ErrInvalidProof", "ErrFuture"})
       ELSE IF thumbprintStep(i.token.header.jwk).kind # "proof"
       THEN thumbprintStep(i.token.header.jwk)
       ELSE IF jktMismatch(i.opts, thumbprintStep(i.token.header.jwk).HashedPublicKey)
       THEN ReturnErr(167, {"ErrInvalidProof", "ErrIncorrectJKT"})
       ELSE thumbprintStep(i.token.header.jwk)

\* The heap locations the next step of call c writes and reads.
Writes(c) ==
    CASE pc[c] = "stripQuery" -> {<< addressOfDeref(inp[c].httpURL), "RawQuery" >>}
      [] pc[c] = "stripFragment" -> {<< loc[c].httpURL, "Fragment" >>}
      [] OTHER -> {}

Reads(c) ==
    CASE pc[c] = "target" -> {<< loc[c].httpURL, f >> : f \in DOMAIN EmptyURL}
      [] OTHER -> {}

\* Two calls, which nothing orders, are about to access the same location
\* and one of the accesses is a write.
DataRace ==
    \E c1 \in Calls, c2 \in Calls :
        c1 # c2 /\ Writes(c1) \cap (Writes(c2) \cup Reads(c2)) # {}

\* one step of call c of Parse
Step(c) ==
    \/ ParseWithClaims(c)
    \/ CheckClaims(c)
    \/ CheckTyp(c)
    \/ StripQuery(c)
    \/ StripFragment(c)
    \/ ParseClaimURL(c)
    \/ CheckTarget(c)
    \/ CheckNonce(c)
    \/ CheckExpired(c)
    \/ CheckFuture(c)
    \/ Thumbprint(c)
    \/ CheckJKT(c)

(***************************************************************************)
(* Spec: one call of Parse, on every input within MaxDeviations of the     *)
(* nominal valid request.                                                  *)
(***************************************************************************)
InitCommon ==
    /\ heap0 = heap
    /\ loc = [c \in Calls |-> NoLocals]
    /\ ret = [c \in Calls |-> NoReturn]
    /\ clock = Now0

Init ==
    /\ \E i \in InputsWithin(MaxDeviations) :
         inp = [c \in Calls |-> IF c = 1 THEN i ELSE NominalInput]
    /\ heap = [r \in Refs |-> inp[r].url]
    /\ pc = [c \in Calls |-> IF c = 1 THEN "start" ELSE "off"]
    /\ InitCommon

Next == Step(1) \/ Tick

Spec == Init /\ [][Next]_vars

(***************************************************************************)
(* SpecTime: one call whose input is the nominal request except for iat    *)
(* and the time options.                                                   *)
(***************************************************************************)
Durations == {NoDuration} \cup {Duration(d) : d \in (0 - MaxNegDur)..MaxDur}

InitTime ==
    /\ \E iat \in (Now0 - MaxSkew)..(Now0 + MaxSkew), past \in Durations,
          future \in Durations, hasTimestamp \in BOOLEAN :
         inp = [c \in Calls |->
                  IF c = 1
                  THEN [NominalInput EXCEPT
                          !.token.claims.iat = Time(iat),
                          !.opts.AllowedProofAge = past,
                          !.opts.TimeWindow = future,
                          !.opts.NonceHasTimestamp = hasTimestamp]
                  ELSE NominalInput]
    /\ heap = [r \in Refs |-> inp[r].url]
    /\ pc = [c \in Calls |-> IF c = 1 THEN "start" ELSE "off"]
    /\ InitCommon

SpecTime == InitTime /\ [][Next]_vars

(***************************************************************************)
(* SpecThumb: two calls, one after the other, whose tokens carry any two   *)
(* jwk headers; the clock stands still.                                    *)
(***************************************************************************)
JwkHeaders == {JObj(m) : m \in JwkDomain} \cup {NilValue, JStr(<< "key" >>)}

InitThumb ==
    /\ \E j1 \in JwkHeaders, j2 \in JwkHeaders :
         inp = [c \in Calls |->
                  [NominalInput EXCEPT !.token.header.jwk = IF c = 1 THEN j1 ELSE j2,
                                       !.httpURL = c]]
    /\ heap = [r \in Refs |-> inp[r].url]
    /\ pc = [c \in Calls |-> "start"]
    /\ InitCommon

NextThumb == Step(1) \/ (pc[1] = "done" /\ Step(2))

SpecThumb == InitThumb /\ [][NextThumb]_vars

(***************************************************************************)
(* SpecConc: two calls running concurrently, handed the same url.URL or    *)
(* two different ones.                                                     *)
(***************************************************************************)
ConcURLs ==
    { urlParse(BaseText).url,
      urlParse(BaseText \o << "?", "a=1" >>).url,
      urlParse(BaseText \o << "#", "frag" >>).url }

ConcTyps == {JStr(<< "dpop+jwt" >>), JStr(<< "jwt" >>)}

InitConc ==
    /\ heap \in [Refs -> ConcURLs]
    /\ \E r2 \in Refs, typ1 \in ConcTyps, typ2 \in ConcTyps :
         inp = [c \in Calls |->
                  [NominalInput EXCEPT
                     !.token.header.typ = IF c = 1 THEN typ1 ELSE typ2,
                     !.httpURL = IF c = 1 THEN 1 ELSE r2,
                     !.url = heap[IF c = 1 THEN 1 ELSE r2]]]
    /\ pc = [c \in Calls |-> "start"]
    /\ InitCommon

NextConc == \E c \in Calls : Step(c)

SpecConc == InitConc /\ [][NextConc]_vars

(***************************************************************************)
(* The claims.                                                             *)
(***************************************************************************)
Done(c) == pc[c] = "done"

Token(c) == inp[c].token

Opts(c) == inp[c].opts

\* the url.URL call c was handed, as it was before any call ran
GivenURL(c) == heap0[inp[c].httpURL]

DpopJwt == JStr(<< "dpop+jwt" >>)

\* the request URL and htu have the same scheme, host and path
SameTarget(url, htu) ==
    /\ urlParse(htu).err = ""
    /\ urlParse(htu).url.Scheme = url.Scheme
    /\ urlParse(htu).url.Opaque = url.Opaque
    /\ urlParse(htu).url.Host = url.Host
    /\ urlParse(htu).url.Path = url.Path

ClaimedProofAge(opts) ==
    IF opts.AllowedProofAge.set THEN opts.AllowedProofAge.d ELSE 5

ClaimedTimeWindow(opts) ==
    IF opts.TimeWindow.set THEN opts.TimeWindow.d ELSE 0

\* every check the claim C1 lists passed for call c
AllChecksPassed(c) ==
    /\ parseWithClaims(Token(c)) = {}
    /\ Token(c).claims.htm # "" /\ Token(c).claims.htu # <<>>
    /\ Token(c).claims.jti # "" /\ Token(c).claims.iat.set
    /\ Token(c).header.typ = DpopJwt
    /\ inp[c].httpMethod = Token(c).claims.htm
    /\ SameTarget(GivenURL(c), Token(c).claims.htu)
    /\ Opts(c).Nonce # "" => Opts(c).Nonce = Token(c).claims.nonce
    /\ ~Opts(c).NonceHasTimestamp =>
          /\ Token(c).claims.iat.t >= loc[c].now1 - ClaimedProofAge(Opts(c))
          /\ Token(c).claims.iat.t <= loc[c].now2 + ClaimedTimeWindow(Opts(c))
    /\ Opts(c).JKT # <<>> => ThumbprintOf(Token(c).header.jwk.m) = Opts(c).JKT

\* C1: Parse returns a Proof and no error only if every applicable check
\* passed, and in every other case a nil Proof and a non-nil error: every
\* call ends with exactly one of the two.
C1_ProofOnlyAfterAllChecks ==
    \A c \in Calls :
        Done(c) =>
            /\ ret[c].kind \in {"proof", "error"}
            /\ ret[c].kind = "error" => ret[c].errs # {} /\ ret[c].HashedPublicKey = <<>>
            /\ ret[c].kind = "proof" => ret[c].errs = {} /\ AllChecksPassed(c)

LaterKinds ==
    { "ErrMissingClaims", "ErrUnsupportedJWTType", "ErrIncorrectHTTPTarget",
      "ErrIncorrectNonce", "ErrExpired", "ErrFuture", "ErrIncorrectJKT" }

\* the error kind of the earliest check the input of call c fails, in the
\* order of C2; "" when it fails none
EarliestFailure(c) ==
    LET claims == Token(c).claims
        stripped == [GivenURL(c) EXCEPT !.RawQuery = <<>>, !.Fragment = <<>>]
        claimURL == [urlParse(claims.htu).url EXCEPT !.RawQuery = <<>>, !.Fragment = <<>>]
    IN IF parseWithClaims(Token(c)) # {} THEN "ErrInvalidProof"
       ELSE IF claims.htm = "" \/ claims.htu = <<>> \/ claims.jti = "" \/ ~claims.iat.set
       THEN "ErrMissingClaims"
       ELSE IF Token(c).header.typ # DpopJwt THEN "ErrUnsupportedJWTType"
       ELSE IF \/ urlParse(claims.htu).err # ""
               \/ inp[c].httpMethod # claims.htm
               \/ urlString(stripped) # urlString(claimURL)
       THEN "ErrIncorrectHTTPTarget"
       ELSE IF Opts(c).Nonce # "" /\ Opts(c).Nonce # claims.nonce THEN "ErrIncorrectNonce"
       ELSE IF ~Opts(c).NonceHasTimestamp
               /\ claims.iat.t < loc[c].now1 - ClaimedProofAge(Opts(c))
       THEN "ErrExpired"
       ELSE IF ~Opts(c).NonceHasTimestamp
               /\ claims.iat.t > loc[c].now2 + ClaimedTimeWindow(Opts(c))
       THEN "ErrFuture"
       ELSE IF Opts(c).JKT # <<>> /\ ThumbprintOf(Token(c).header.jwk.m) # Opts(c).JKT
       THEN "ErrIncorrectJKT"
       ELSE ""

\* C2: the checks run in a fixed order and stop at the first failure: the
\* error a call returns is that of the earliest check its input fails, and
\* no later check's error kind is reported in its place or with it.
C2_EarliestFailureReported ==
    \A c \in Calls :
        Done(c) =>
            IF EarliestFailure(c) = "" THEN ret[c].kind = "proof"
            ELSE /\ ret[c].kind = "error"
                 /\ IF EarliestFailure(c) = "ErrInvalidProof"
                    THEN "ErrInvalidProof" \in ret[c].errs /\ ret[c].errs \cap LaterKinds = {}
                    ELSE ret[c].errs \cap LaterKinds = {EarliestFailure(c)}

\* C3: Parse does not modify the caller's request URL: after a call has
\* returned, the url.URL it was handed has the query string and fragment it
\* had before.
C3_RequestURLUnchanged ==
    \A c \in Calls :
        Done(c) =>
            /\ heap[inp[c].httpURL].RawQuery = GivenURL(c).RawQuery
            /\ heap[inp[c].httpURL].Fragment = GivenURL(c).Fragment

\* C4: concurrent calls of Parse, also when handed the same url.URL, never
\* race on a memory location, and each returns what it returns when run
\* alone.
C4_ConcurrentCallsSafe ==
    /\ ~DataRace
    /\ \A c \in Calls : Done(c) => ret[c] = parseAlone(inp[c], GivenURL(c), Now0)

\* C5: a verified proof with all required claims whose typ header is
\* anything but the string "dpop+jwt" (absent, another string, a number, an
\* object) makes Parse return an UnsupportedJWTType error; it never panics.
C5_BadTypReturnsError ==
    \A c \in Calls :
        ( /\ Done(c)
          /\ parseWithClaims(Token(c)) = {}
          /\ ~claimsMissing(Token(c).claims)
          /\ Token(c).header.typ # DpopJwt )
        => ret[c].kind = "error" /\ "ErrUnsupportedJWTType" \in ret[c].errs

\* call c got as far as the HTTP-target check
ReachedTarget(c) == Done(c) /\ ret[c].line \notin {78, 84, 90, 91}

\* C7: the HTTP-target check passes for every request URL and htu with the
\* same scheme, host and path (and method equal to htm), whatever query
\* string or fragment either carries, and fails with IncorrectHTTPTarget for
\* every other pair.
C7_TargetIgnoresQueryAndFragment ==
    \A c \in Calls :
        ReachedTarget(c) =>
            IF /\ SameTarget(GivenURL(c), Token(c).claims.htu)
               /\ inp[c].httpMethod = Token(c).claims.htm
            THEN "ErrIncorrectHTTPTarget" \notin ret[c].errs
            ELSE ret[c].kind = "error" /\ "ErrIncorrectHTTPTarget" \in ret[c].errs

\* call c ran the iat check without a timestamp in the nonce
TimeChecked(c) == Done(c) /\ ~Opts(c).NonceHasTimestamp

Iat(c) == Token(c).claims.iat.t

\* now - allowedProofAge and now + allowedTimeWindow, each with the clock
\* reading of the check that uses it
OldestAccepted(c) == loc[c].now1 - ClaimedProofAge(Opts(c))

NewestAccepted(c) ==
    (IF ret[c].line = 130 THEN clock ELSE loc[c].now2) + ClaimedTimeWindow(Opts(c))

RequiredMembers(kty) ==
    CASE kty = << "EC" >> -> {"crv", "x", "y"}
      [] kty = << "RSA" >> -> {"e", "n"}
      [] kty = << "OKP" >> -> {"x"}
      [] OTHER -> {}

\* both JWKs decode, and they have the same kty and required member values
SameKeyMaterial(j1, j2) ==
    /\ parseJwk(j1).err = "" /\ parseJwk(j2).err = ""
    /\ j1["kty"] = j2["kty"]
    /\ \A k \in RequiredMembers(j1["kty"].v) : j1[k] = j2[k]

JwkOf(c) == Token(c).header.jwk

\* the two calls carry JWK objects with the same key material
SameKeys ==
    /\ JwkOf(1).t = "object" /\ JwkOf(2).t = "object"
    /\ SameKeyMaterial(JwkOf(1).m, JwkOf(2).m)

\* C8: two JWKs that decode and have the same kty and required members
\* give identical thumbprint bytes and an identical HashedPublicKey,
\* whatever optional members either carries.
C8_ThumbprintOfKeyMaterialOnly ==
    SameKeys =>
        /\ getThumbprintableJwkJSONbytes(JwkOf(1).m) = getThumbprintableJwkJSONbytes(JwkOf(2).m)
        /\ (Done(1) /\ Done(2)) =>
              /\ ret[1].kind = ret[2].kind
              /\ ret[1].HashedPublicKey = ret[2].HashedPublicKey
              /\ loc[1].jwkJSONbytes = loc[2].jwkJSONbytes

\* two calls with different JWK maps of the same key both returned a Proof
C8_TwoMapsOneKey ==
    /\ SameKeys
    /\ JwkOf(1).m # JwkOf(2).m
    /\ Done(1) /\ Done(2)
    /\ ret[1].kind = "proof" /\ ret[2].kind = "proof"

\* the text of member key in the JSON object bytes
JsonMemberValue(bytes, key) ==
    LET at == CHOOSE i \in 2..(Len(bytes) - 1) :
                  bytes[i] = key /\ bytes[i - 1] = "\"" /\ bytes[i + 1] = "\":\""
        rest == SubSeq(bytes, at + 2, Len(bytes))
    IN CutBefore(rest, "\"")

\* call c computed the thumbprint bytes of an EC key
HasEcBytes(c) ==
    /\ pc[c] \in {"jkt", "done"}
    /\ loc[c].jwkJSONbytes # <<>>
    /\ parseJwk(JwkOf(c).m).key.type = "ecdsa"

\* C9: for P-256, P-384 and P-521 the coordinate width bitSize/8 + bitSize%8
\* is ceil(bitSize/8), that is 32, 48 and 66 bytes, and x and y are emitted
\* as strings of exactly that many bytes.
C9_CoordinateWidth ==
    /\ \A crv \in SupportedCurves :
          keyCurveBytesSize(BitSize(crv)) = (BitSize(crv) + 7) \div 8
    /\ keyCurveBytesSize(BitSize("P-256")) = 32
    /\ keyCurveBytesSize(BitSize("P-384")) = 48
    /\ keyCurveBytesSize(BitSize("P-521")) = 66
    /\ \A c \in Calls :
          HasEcBytes(c) =>
              \A k \in {"x", "y"} :
                  Len(DecodeString(JsonMemberValue(loc[c].jwkJSONbytes, k)).bytes)
                    = (BitSize(parseJwk(JwkOf(c).m).key.curve) + 7) \div 8

\* a call emitted the coordinates of a P-521 key, one of them shorter than
\* the curve's width
C9_P521Emitted ==
    \E c \in Calls :
        /\ HasEcBytes(c)
        /\ parseJwk(JwkOf(c).m).key.curve = "P-521"
        /\ Len(parseJwk(JwkOf(c).m).key.Y) < 66

\* C10: once jwt.ParseWithClaims with keyFunc has succeeded, the thumbprint
\* step cannot fail: no call leaves Parse on line 149 or 154 (or panics in
\* getThumbprintableJwkJSONbytes), for every token.
C10_ThumbprintStepCannotFail ==
    \A c \in Calls :
        /\ parseWithClaims(Token(c)) = {} => thumbprintStep(JwkOf(c)).kind = "proof"
        /\ ret[c].line \notin {149, 151, 154}

\* a call with an Ed25519 key passed step 1 and went through the thumbprint
\* step
C10_ThumbprintStepPassed ==
    \E c \in Calls :
        /\ pc[c] \in {"jkt", "done"}
        /\ parseWithClaims(Token(c)) = {}
        /\ parseJwk(JwkOf(c).m).key.type = "ed25519"
        /\ loc[c].jwkJSONbytes # <<>>

====
